---- MODULE Spec2Model ----
(***************************************************************************)
(* Model of procd's watchdog subsystem (watchdog.c): the device handle,     *)
(* the uloop ping timer, the extended watchdog (watchdog-client probe run   *)
(* every WDTE_FREQUENCY ticks) and the descriptor handover through the      *)
(* WDTFD environment variable.                                              *)
(***************************************************************************)
EXTENDS Integers, Sequences, FiniteSets, TLC

(* ---------------------------- program constants ------------------------ *)
WATCHDOG_CLIENT_RESTART_CODE == 64
WDTE_FREQUENCY == 12
WDTE_FAILURES_THRESHOLD == 15
FD_BUF_SIZE == 3
INIT_TIMEOUT == 30
DEFAULT_FREQUENCY == 5

(* ------------------------------- bounds -------------------------------- *)
\* wdte_failures is an int the code never caps; the model stops counting here
MaxFailures == 16
\* ticks counted after a successful init, scheduler specification
MaxTicks == 25
\* ticks counted after a successful init, timer-only specification
MaxLongTicks == 182
\* largest descriptor number open() hands out in the handover specification
MaxFd == 101
\* timeout the watchdog driver starts with
DriverTimeout == 60

(* ------------------------------ variables ------------------------------ *)
VARIABLES
    wdt_fd,          \* static int wdt_fd
    wdt_frequency,   \* static int wdt_frequency
    wdte_failures,   \* static int wdte_failures
    wdte_cycle,      \* static int wdte_cycle
    pending,         \* wdt_timeout.pending
    delay,           \* msecs of the last uloop_timeout_set on wdt_timeout
    cb,              \* wdt_timeout.cb has been set
    env,             \* the WDTFD environment variable
    kfd,             \* descriptor number under which the process holds the device, -1 if none
    kcloexec,        \* FD_CLOEXEC flag of that descriptor
    drv,             \* timeout the driver currently applies
    lastOp,          \* the operation that ran last
    log,             \* what the last operation did, in order
    probe,           \* system() status of the probe run by the last operation
    ret,             \* what the last operation returned
    forcedStop,      \* a tick of this process image took the restart branch
    ticks,           \* ticks run since the successful init of this process image
    run,             \* generic probe failures since the last probe success
    handed,          \* descriptor value of the image that exec'd into this one, -1 if none
    mode,            \* how this image's handle last got its close-on-exec flag
    arg              \* the integer argument of the last operation, 0 if none

vars == <<wdt_fd, wdt_frequency, wdte_failures, wdte_cycle, pending, delay, cb,
          env, kfd, kcloexec, drv, lastOp, log, probe, ret, forcedStop, ticks, run, handed,
          mode, arg>>

NoProbe == -2
NoEnv == [set |-> FALSE, val |-> <<>>]
Void == [kind |-> "void", v |-> 0]
IntRet(n) == [kind |-> "int", v |-> n]
BoolRet(b) == [kind |-> "bool", v |-> b]
StrRet(s) == [kind |-> "str", v |-> s]
NullRet == [kind |-> "null", v |-> 0]

(* ------------------------- probe exit statuses ------------------------- *)
ExitStatus(code) == code * 256
\* what system() can return: -1, a normal exit, a death by signal
ProbeStatuses == {-1, ExitStatus(0), ExitStatus(1), ExitStatus(2),
                  ExitStatus(64), ExitStatus(255), 9}
WIFEXITED(state) == state % 128 = 0
WEXITSTATUS(state) == (state \div 256) % 256

watchdog_run_client_m1(state) ==
    IF state = -1 THEN 0
    ELSE IF ~WIFEXITED(state) THEN 2
    ELSE WEXITSTATUS(state)

watchdog_run_client(state) ==
    IF state = -1 THEN 2
    ELSE IF ~WIFEXITED(state) THEN 2
    ELSE WEXITSTATUS(state)

(* --------------------------- extended watchdog ------------------------- *)
ProbeEffect_m1(failures, rc) ==
    CASE rc = 0 -> 0
      [] OTHER -> failures + 1

ProbeEffect_m2(failures, rc) ==
    CASE rc = 0 -> failures
      [] rc = WATCHDOG_CLIENT_RESTART_CODE -> WDTE_FAILURES_THRESHOLD
      [] OTHER -> failures + 1

\* the switch on the probe's result
ProbeEffect(failures, rc) ==
    CASE rc = 0 -> 0
      [] rc = WATCHDOG_CLIENT_RESTART_CODE -> WDTE_FAILURES_THRESHOLD
      [] OTHER -> failures + 1

\* the cycle counter, the failure counter and whether the probe ran
watchdog_extended(cycle, failures, state) ==
    IF cycle + 1 >= WDTE_FREQUENCY
    THEN [cycle |-> 0,
          failures |-> ProbeEffect(failures, watchdog_run_client(state)),
          ran |-> TRUE]
    ELSE [cycle |-> cycle + 1, failures |-> failures, ran |-> FALSE]

(* --------------------------------- ping -------------------------------- *)
\* the write(2) of watchdog_ping: nothing on a disabled handle; EBADF when
\* fd is not the descriptor k the device is held under; otherwise wok says
\* whether the write went through
watchdog_ping(fd, k, wok) ==
    IF fd < 0 THEN <<>>
    ELSE IF fd = k /\ wok THEN <<"write">>
    ELSE <<"write_err">>

(* ----------------------------- timer callback -------------------------- *)
watchdog_timeout_cb_m1(fd, k, state, wok) ==
    LET e == watchdog_extended(wdte_cycle, wdte_failures, state) IN
    IF e.failures > WDTE_FAILURES_THRESHOLD
    THEN [cycle |-> e.cycle, failures |-> e.failures, ran |-> e.ran,
          pending |-> FALSE, delay |-> delay, stop |-> TRUE,
          ev |-> <<"tick">> \o (IF e.ran THEN <<"probe">> ELSE <<>>)]
    ELSE [cycle |-> e.cycle, failures |-> e.failures, ran |-> e.ran,
          pending |-> TRUE, delay |-> wdt_frequency * 1000, stop |-> FALSE,
          ev |-> <<"tick">> \o (IF e.ran THEN <<"probe">> ELSE <<>>)
                 \o watchdog_ping(fd, k, wok)]

watchdog_timeout_cb_m2(fd, k, state, wok) ==
    LET e == watchdog_extended(wdte_cycle, wdte_failures, state) IN
    IF e.failures >= WDTE_FAILURES_THRESHOLD
    THEN [cycle |-> e.cycle, failures |-> e.failures, ran |-> e.ran,
          pending |-> FALSE, delay |-> delay, stop |-> TRUE,
          ev |-> <<"tick">> \o (IF e.ran THEN <<"probe">> ELSE <<>>)]
    ELSE [cycle |-> e.cycle, failures |-> e.failures, ran |-> e.ran,
          pending |-> wok, delay |-> wdt_frequency * 1000, stop |-> FALSE,
          ev |-> <<"tick">> \o (IF e.ran THEN <<"probe">> ELSE <<>>)
                 \o watchdog_ping(fd, k, wok)]

\* state: what system() returns if the probe runs in this tick
watchdog_timeout_cb(fd, k, state, wok) ==
    LET e == watchdog_extended(wdte_cycle, wdte_failures, state) IN
    IF e.failures >= WDTE_FAILURES_THRESHOLD
    THEN [cycle |-> e.cycle, failures |-> e.failures, ran |-> e.ran,
          pending |-> FALSE, delay |-> delay, stop |-> TRUE,
          ev |-> <<"tick">> \o (IF e.ran THEN <<"probe">> ELSE <<>>)]
    ELSE [cycle |-> e.cycle, failures |-> e.failures, ran |-> e.ran,
          pending |-> TRUE, delay |-> wdt_frequency * 1000, stop |-> FALSE,
          ev |-> <<"tick">> \o (IF e.ran THEN <<"probe">> ELSE <<>>)
                 \o watchdog_ping(fd, k, wok)]

\* bookkeeping of the probe results, as seen from outside the program
IsSuccess(state) == state = ExitStatus(0)
IsRestart(state) == state = ExitStatus(WATCHDOG_CLIENT_RESTART_CODE)
IsGeneric(state) == ~IsSuccess(state) /\ ~IsRestart(state)

\* what system() may return in a tick that starts with the given cycle counter
ProbeChoices(cycle) ==
    IF cycle + 1 >= WDTE_FREQUENCY THEN ProbeStatuses ELSE {NoProbe}

\* the part of a step that a tick r, run on descriptor fd, decides; the
\* observer ticks is kept only by a specification with cap > 0, the observer
\* run only by one with runs
ApplyTick(r, fd, state, cap, runs) ==
    /\ r.failures <= MaxFailures
    /\ (fd >= 0 /\ cap > 0) => ticks < cap
    /\ wdte_cycle' = r.cycle
    /\ wdte_failures' = r.failures
    /\ pending' = r.pending
    /\ delay' = r.delay
    /\ probe' = IF r.ran THEN state ELSE NoProbe
    /\ forcedStop' = (forcedStop \/ r.stop)
    /\ ticks' = IF fd >= 0 /\ cap > 0 THEN ticks + 1 ELSE ticks
    /\ run' = IF ~r.ran \/ ~runs THEN run
              ELSE IF IsSuccess(state) THEN 0
              ELSE IF IsGeneric(state) THEN run + 1
              ELSE run

(* ------------------------------ the timer ------------------------------ *)
\* uloop takes the timer off its list and calls wdt_timeout.cb, if set
TimerFire(writes, cap, runs) ==
    /\ pending
    /\ lastOp' = "timer"
    /\ arg' = 0
    /\ ret' = Void
    /\ IF cb
       THEN \E state \in ProbeChoices(wdte_cycle), wok \in writes :
              LET r == watchdog_timeout_cb(wdt_fd, kfd, state, wok) IN
              /\ ApplyTick(r, wdt_fd, state, cap, runs)
              /\ log' = r.ev
       ELSE /\ pending' = FALSE
            /\ log' = <<>>
            /\ probe' = NoProbe
            /\ UNCHANGED <<wdte_cycle, wdte_failures, delay, forcedStop, ticks, run>>
    /\ UNCHANGED <<wdt_fd, wdt_frequency, cb, env, kfd, kcloexec, drv, handed, mode>>

(* --------------------------- stop and resume --------------------------- *)
watchdog_set_stopped_m2(val, writes, cap, runs) ==
    /\ lastOp' = (IF val THEN "stop" ELSE "resume")
    /\ arg' = (IF val THEN 1 ELSE 0)
    /\ ret' = Void
    /\ IF val
       THEN /\ pending' = FALSE
            /\ log' = <<>>
            /\ probe' = NoProbe
            /\ UNCHANGED <<wdte_cycle, wdte_failures, delay, forcedStop, ticks, run>>
       ELSE IF pending
       THEN /\ log' = <<>>
            /\ probe' = NoProbe
            /\ UNCHANGED <<pending, wdte_cycle, wdte_failures, delay, forcedStop,
                           ticks, run>>
       ELSE \E state \in ProbeChoices(wdte_cycle), wok \in writes :
              LET r == watchdog_timeout_cb(wdt_fd, kfd, state, wok) IN
              /\ ApplyTick(r, wdt_fd, state, cap, runs)
              /\ log' = r.ev
    /\ UNCHANGED <<wdt_fd, wdt_frequency, cb, env, kfd, kcloexec, drv, handed, mode>>

watchdog_set_stopped_m1(val, writes, cap, runs) ==
    /\ lastOp' = (IF val THEN "stop" ELSE "resume")
    /\ arg' = (IF val THEN 1 ELSE 0)
    /\ ret' = Void
    /\ IF val
       THEN /\ pending' = FALSE
            /\ log' = <<>>
            /\ probe' = NoProbe
            /\ wdte_cycle' = 0
            /\ wdte_failures' = 0
            /\ UNCHANGED <<delay, forcedStop, ticks, run>>
       ELSE \E state \in ProbeChoices(wdte_cycle), wok \in writes :
              LET r == watchdog_timeout_cb(wdt_fd, kfd, state, wok) IN
              /\ ApplyTick(r, wdt_fd, state, cap, runs)
              /\ log' = r.ev
    /\ UNCHANGED <<wdt_fd, wdt_frequency, cb, env, kfd, kcloexec, drv, handed, mode>>

watchdog_set_stopped(val, writes, cap, runs) ==
    /\ lastOp' = (IF val THEN "stop" ELSE "resume")
    /\ arg' = (IF val THEN 1 ELSE 0)
    /\ ret' = Void
    /\ IF val
       THEN /\ pending' = FALSE
            /\ log' = <<>>
            /\ probe' = NoProbe
            /\ UNCHANGED <<wdte_cycle, wdte_failures, delay, forcedStop, ticks, run>>
       ELSE \E state \in ProbeChoices(wdte_cycle), wok \in writes :
              LET r == watchdog_timeout_cb(wdt_fd, kfd, state, wok) IN
              /\ ApplyTick(r, wdt_fd, state, cap, runs)
              /\ log' = r.ev
    /\ UNCHANGED <<wdt_fd, wdt_frequency, cb, env, kfd, kcloexec, drv, handed, mode>>

watchdog_get_stopped_m1 ==
    /\ lastOp' = "get_stopped"
    /\ arg' = 0
    /\ ret' = BoolRet(pending)
    /\ log' = <<"after", lastOp>>
    /\ probe' = NoProbe
    /\ UNCHANGED <<wdt_fd, wdt_frequency, wdte_failures, wdte_cycle, pending, delay,
                   cb, env, kfd, kcloexec, drv, forcedStop, ticks, run, handed, mode>>

watchdog_get_stopped ==
    /\ lastOp' = "get_stopped"
    /\ arg' = 0
    /\ ret' = BoolRet(~pending)
    /\ log' = <<"after", lastOp>>
    /\ probe' = NoProbe
    /\ UNCHANGED <<wdt_fd, wdt_frequency, wdte_failures, wdte_cycle, pending, delay,
                   cb, env, kfd, kcloexec, drv, forcedStop, ticks, run, handed, mode>>

\* watchdog_ping called by the supervisor
Ping(writes) ==
    /\ lastOp' = "ping"
    /\ arg' = 0
    /\ ret' = Void
    /\ \E wok \in writes : log' = watchdog_ping(wdt_fd, kfd, wok)
    /\ probe' = NoProbe
    /\ UNCHANGED <<wdt_fd, wdt_frequency, wdte_failures, wdte_cycle, pending, delay,
                   cb, env, kfd, kcloexec, drv, forcedStop, ticks, run, handed, mode>>

(* ------------------------- timeout and frequency ----------------------- *)
\* the two ioctls of watchdog_timeout on descriptor fd, the device being held
\* under k with driver timeout d; accept: the driver takes the requested value
DeviceTimeout(fd, k, d, timeout, accept) ==
    LET setEv == IF timeout # 0 THEN <<"set">> ELSE <<>>
        d1 == IF timeout # 0 /\ fd = k /\ accept /\ timeout > 0 THEN timeout ELSE d
    IN  IF fd < 0 THEN [ret |-> 0, drv |-> d, ev |-> <<>>]
        ELSE [ret |-> (IF fd = k THEN d1 ELSE timeout), drv |-> d1,
              ev |-> setEv \o <<"get">>]

watchdog_timeout(timeouts, accepts) ==
    \E timeout \in timeouts, accept \in accepts :
      LET t == DeviceTimeout(wdt_fd, kfd, drv, timeout, accept) IN
      /\ lastOp' = "timeout"
      /\ arg' = timeout
      /\ ret' = IntRet(t.ret)
      /\ drv' = t.drv
      /\ log' = t.ev
      /\ probe' = NoProbe
      /\ UNCHANGED <<wdt_fd, wdt_frequency, wdte_failures, wdte_cycle, pending, delay,
                     cb, env, kfd, kcloexec, forcedStop, ticks, run, handed, mode>>

NewFrequency(fd, old, frequency) ==
    IF fd < 0 THEN old
    ELSE IF frequency # 0 THEN frequency
    ELSE old

watchdog_frequency(frequencies) ==
    \E frequency \in frequencies :
      /\ lastOp' = "frequency"
      /\ arg' = frequency
      /\ wdt_frequency' = NewFrequency(wdt_fd, wdt_frequency, frequency)
      /\ ret' = IntRet(IF wdt_fd < 0 THEN 0 ELSE wdt_frequency')
      /\ log' = <<>>
      /\ probe' = NoProbe
      /\ UNCHANGED <<wdt_fd, wdte_failures, wdte_cycle, pending, delay,
                     cb, env, kfd, kcloexec, drv, forcedStop, ticks, run, handed, mode>>

(* ------------------------- descriptor as a string ---------------------- *)
\* strings of decimal digits are sequences over 0..9
RECURSIVE Decimal(_)
Decimal(n) == IF n < 10 THEN <<n>> ELSE Append(Decimal(n \div 10), n % 10)

\* snprintf(buf, size, "%d", n): at most size - 1 characters are stored
Snprintf(size, n) ==
    LET full == Decimal(n) IN
    IF Len(full) <= size - 1 THEN full ELSE SubSeq(full, 1, size - 1)

RECURSIVE Atoi(_)
Atoi(s) == IF s = <<>> THEN 0 ELSE 10 * Atoi(SubSeq(s, 1, Len(s) - 1)) + s[Len(s)]

FdString(fd) == IF fd < 0 THEN NullRet ELSE StrRet(Snprintf(FD_BUF_SIZE, fd))

watchdog_fd ==
    /\ lastOp' = "fd"
    /\ arg' = 0
    /\ ret' = FdString(wdt_fd)
    /\ log' = <<>>
    /\ probe' = NoProbe
    /\ UNCHANGED <<wdt_fd, wdt_frequency, wdte_failures, wdte_cycle, pending, delay,
                   cb, env, kfd, kcloexec, drv, forcedStop, ticks, run, handed, mode>>

(* ------------------------------ close-on-exec -------------------------- *)
\* fcntl(fd, F_SETFD, ...) changes the flag of the device's descriptor only
\* when fd is that descriptor
SetCloexec(fd, k, old, flag) == IF fd >= 0 /\ fd = k THEN flag ELSE old

watchdog_no_cloexec ==
    /\ lastOp' = "no_cloexec"
    /\ arg' = 0
    /\ ret' = Void
    /\ kcloexec' = SetCloexec(wdt_fd, kfd, kcloexec, FALSE)
    /\ mode' = (IF wdt_fd >= 0 THEN "allowed" ELSE mode)
    /\ log' = <<>>
    /\ probe' = NoProbe
    /\ UNCHANGED <<wdt_fd, wdt_frequency, wdte_failures, wdte_cycle, pending, delay,
                   cb, env, kfd, drv, forcedStop, ticks, run, handed>>

(* --------------------------------- init -------------------------------- *)
\* opened: what open("/dev/watchdog") returns when the device is free;
\* dbg: the debug level makes the closing DEBUG line evaluate watchdog_timeout(0)
watchdog_init(preinits, opens, accepts, writes, cap, runs) ==
    \E preinit \in preinits,
       opened \in (IF wdt_fd >= 0 \/ env.set \/ kfd >= 0 THEN {-1} ELSE opens),
       accept \in accepts, dbg \in BOOLEAN,
       state \in ProbeChoices(wdte_cycle), wok \in writes :
      /\ lastOp' = "init"
      /\ arg' = (IF preinit THEN 1 ELSE 0)
      /\ ret' = Void
      /\ handed' = handed
      /\ wdt_frequency' = wdt_frequency
      /\ IF wdt_fd >= 0
         THEN /\ log' = <<>>
              /\ probe' = NoProbe
              /\ UNCHANGED <<wdt_fd, wdte_failures, wdte_cycle, pending, delay, cb, env,
                             kfd, kcloexec, drv, forcedStop, ticks, run, mode>>
         ELSE LET adopt == env.set
                  fd1 == IF adopt THEN Atoi(env.val)
                         ELSE IF kfd >= 0 THEN -1 ELSE opened
                  k1 == IF ~adopt /\ fd1 >= 0 THEN fd1 ELSE kfd
                  ce0 == IF ~adopt /\ fd1 >= 0 THEN FALSE ELSE kcloexec
                  openEv == IF adopt THEN <<>> ELSE <<"open">>
                  t30 == DeviceTimeout(fd1, k1, drv, INIT_TIMEOUT, accept)
                  r == watchdog_timeout_cb(fd1, k1, state, wok)
                  t0 == DeviceTimeout(fd1, k1, t30.drv, 0, accept)
              IN  /\ cb' = TRUE
                  /\ env' = NoEnv
                  /\ wdt_fd' = fd1
                  /\ kfd' = k1
                  /\ IF fd1 < 0
                     THEN /\ kcloexec' = ce0
                          /\ log' = openEv
                          /\ probe' = NoProbe
                          /\ UNCHANGED <<wdte_failures, wdte_cycle, pending, delay, drv,
                                         forcedStop, ticks, run, mode>>
                     ELSE /\ kcloexec' = IF preinit THEN ce0
                                         ELSE SetCloexec(fd1, k1, ce0, TRUE)
                          /\ mode' = (IF preinit THEN "preinit" ELSE "main")
                          /\ drv' = t30.drv
                          /\ ApplyTick(r, fd1, state, cap, runs)
                          /\ log' = openEv \o t30.ev \o r.ev
                                    \o (IF dbg THEN t0.ev ELSE <<>>)

(* ------------------------------- re-exec ------------------------------- *)
\* the supervisor exports watchdog_fd() as WDTFD and replaces the process
\* image: statics start over, the environment stays, a close-on-exec
\* descriptor is closed
Exec ==
    /\ lastOp' = "exec"
    /\ arg' = 0
    /\ ret' = Void
    /\ log' = <<>>
    /\ probe' = NoProbe
    /\ handed' = wdt_fd
    /\ mode' = (IF wdt_fd >= 0 /\ wdt_fd = kfd /\ mode \in {"preinit", "allowed"}
                THEN "handover" ELSE "none")
    /\ env' = IF wdt_fd >= 0 THEN [set |-> TRUE, val |-> FdString(wdt_fd).v] ELSE env
    /\ kfd' = IF kcloexec THEN -1 ELSE kfd
    /\ kcloexec' = FALSE
    /\ wdt_fd' = -1
    /\ wdt_frequency' = DEFAULT_FREQUENCY
    /\ wdte_failures' = 0
    /\ wdte_cycle' = 0
    /\ pending' = FALSE
    /\ delay' = 0
    /\ cb' = FALSE
    /\ forcedStop' = FALSE
    /\ ticks' = 0
    /\ run' = 0
    /\ drv' = drv

(* ---------------------------- specifications --------------------------- *)
\* a process image that has just started: the static initializers
Init ==
    /\ wdt_fd = -1
    /\ wdt_frequency = DEFAULT_FREQUENCY
    /\ wdte_failures = 0
    /\ wdte_cycle = 0
    /\ pending = FALSE
    /\ delay = 0
    /\ cb = FALSE
    /\ env = NoEnv
    /\ kfd = -1
    /\ kcloexec = FALSE
    /\ drv = DriverTimeout
    /\ lastOp = "none"
    /\ log = <<>>
    /\ probe = NoProbe
    /\ ret = Void
    /\ forcedStop = FALSE
    /\ ticks = 0
    /\ run = 0
    /\ handed = -1
    /\ mode = "none"
    /\ arg = 0

\* the scheduler under every request of the supervisor
OpenResults == {-1, 3}
TimeoutInputs == {0, INIT_TIMEOUT}
FrequencyInputs == {0, 2}

Next ==
    \/ watchdog_init(BOOLEAN, OpenResults, {TRUE}, {TRUE}, 0, FALSE)
    \/ TimerFire({TRUE}, 0, FALSE)
    \/ watchdog_set_stopped(TRUE, {TRUE}, 0, FALSE)
    \/ watchdog_set_stopped(FALSE, {TRUE}, 0, FALSE)
    \/ watchdog_get_stopped
    \/ Ping({TRUE})
    \/ watchdog_timeout(TimeoutInputs, {TRUE})
    \/ watchdog_frequency(FrequencyInputs)
    \/ watchdog_fd
    \/ watchdog_no_cloexec

Spec == Init /\ [][Next]_vars

\* the scheduler alone, its ticks counted from the successful init
NextTicks ==
    \/ watchdog_init({FALSE}, OpenResults, {TRUE}, {TRUE}, MaxTicks, FALSE)
    \/ TimerFire({TRUE}, MaxTicks, FALSE)
    \/ watchdog_set_stopped(TRUE, {TRUE}, MaxTicks, FALSE)
    \/ watchdog_set_stopped(FALSE, {TRUE}, MaxTicks, FALSE)

SpecTicks == Init /\ [][NextTicks]_vars

\* a process whose first request is an init that succeeds, and whose ticks
\* all come from the timer
NextLong ==
    \/ wdt_fd < 0
         /\ watchdog_init(BOOLEAN, {3}, {TRUE}, {TRUE}, MaxLongTicks, TRUE)
    \/ wdt_fd >= 0 /\ TimerFire({TRUE}, MaxLongTicks, TRUE)

SpecLong == Init /\ [][NextLong]_vars

\* handover of the descriptor from one process image to the next
HandoverOpens == -1 .. MaxFd

NextHandover ==
    \/ watchdog_init(BOOLEAN, HandoverOpens, {TRUE}, {TRUE}, 0, FALSE)
    \/ watchdog_fd
    \/ watchdog_no_cloexec
    \/ Exec

SpecHandover == Init /\ [][NextHandover]_vars

(* ------------------------- reading the last step ----------------------- *)
Has(l, ev) == \E i \in DOMAIN l : l[i] = ev
Count(l, ev) == Cardinality({i \in DOMAIN l : l[i] = ev})
\* write(2) calls on the descriptor, whatever they returned
Pings(l) == Count(l, "write") + Count(l, "write_err")
\* requests that reach the device or its path
DeviceRequests(l) == Pings(l) + Count(l, "set") + Count(l, "get") + Count(l, "open")
\* the last operation ran the timer callback
TickRan == Has(log, "tick")

(* -------------------------------- claims ------------------------------- *)

\* C1: after every tick (from the timer, from init or from setStopped(false))
\* the timer is pending exactly when consecutiveFailures is below the
\* threshold, the tick wrote one ping exactly when the timer is pending and
\* none otherwise, and a pending timer was armed for pingIntervalSeconds * 1000.
C1_TickDecision ==
    TickRan =>
        /\ pending <=> wdte_failures < WDTE_FAILURES_THRESHOLD
        /\ Pings(log) = (IF pending THEN 1 ELSE 0)
        /\ pending => delay = wdt_frequency * 1000

\* C2: once a tick has taken the restart branch the scheduler stays Stopped:
\* the timer is never pending again and no later tick pings the device.
C2_StoppedPermanently ==
    forcedStop => ~pending /\ (TickRan => Pings(log) = 0)

\* C3: consecutiveFailures stays within 0 .. FAILURE_THRESHOLD in every
\* reachable state.
C3_FailuresBounded ==
    0 <= wdte_failures /\ wdte_failures <= WDTE_FAILURES_THRESHOLD

\* C4: counting the ticks from the successful init (the init tick is tick 1),
\* a tick runs the probe exactly when its number is a multiple of FREQUENCY,
\* which is exactly when it brings the cycle counter to FREQUENCY (and so
\* leaves it at 0).
C4_ProbeEveryTwelfthTick ==
    (TickRan /\ wdt_fd >= 0) =>
        /\ Has(log, "probe") <=> ticks % WDTE_FREQUENCY = 0
        /\ Has(log, "probe") <=> wdte_cycle = 0

\* C5: a tick that runs the probe leaves consecutiveFailures at 0 when the
\* probe exited with 0, at FAILURE_THRESHOLD when it exited with 64, and at
\* the old value plus one for every other exit code, for a probe that could
\* not be launched and for one that did not exit normally.
C5_ProbeOutcome ==
    [][probe' # NoProbe =>
        wdte_failures' = (IF IsSuccess(probe') THEN 0
                          ELSE IF IsRestart(probe') THEN WDTE_FAILURES_THRESHOLD
                          ELSE wdte_failures + 1)]_vars

C5_Witness ==
    /\ lastOp = "timer"
    /\ probe = -1
    /\ wdte_failures = 2

\* C6: a tick whose probe exits with 64 leaves consecutiveFailures at exactly
\* FAILURE_THRESHOLD, writes no ping and leaves no timer pending.
C6_RestartCodeStops ==
    IsRestart(probe) =>
        /\ wdte_failures = WDTE_FAILURES_THRESHOLD
        /\ ~pending
        /\ Pings(log) = 0

C6_Witness ==
    /\ IsRestart(probe)
    /\ lastOp = "timer"
    /\ wdt_fd >= 0
    /\ ~pending

\* C7: after a successful init with only timer ticks, as long as every probe
\* was a generic failure the scheduler is Armed and pings on every tick up to
\* tick 179, the probe of tick 180 (the 15th failure) stops it, and it is
\* never stopped without 15 generic failures since the last success or a
\* probe that exited with 64.
AllGeneric == run = ticks \div WDTE_FREQUENCY

C7_FifteenthFailureStops ==
    wdt_fd >= 0 =>
        /\ (AllGeneric /\ ticks <= WDTE_FREQUENCY * WDTE_FAILURES_THRESHOLD - 1)
               => (pending /\ Pings(log) = 1)
        /\ (AllGeneric /\ ticks = WDTE_FREQUENCY * WDTE_FAILURES_THRESHOLD)
               => (~pending /\ forcedStop)
        /\ forcedStop => (run >= WDTE_FAILURES_THRESHOLD \/ IsRestart(probe))
        /\ ~pending => forcedStop

C7_Witness ==
    /\ ticks = WDTE_FREQUENCY * WDTE_FAILURES_THRESHOLD
    /\ run = WDTE_FAILURES_THRESHOLD
    /\ ~pending

\* C8 as stated: on an enabled handle getStopped() is true right after
\* setStopped(true) and false right after setStopped(false).
C8_GetStoppedAfterSet ==
    (lastOp = "get_stopped" /\ wdt_fd >= 0) =>
        /\ log = <<"after", "stop">> => ret.v = TRUE
        /\ log = <<"after", "resume">> => ret.v = FALSE

\* C8 amended: on an enabled handle getStopped() is true right after
\* setStopped(true); right after setStopped(false) it is false exactly when
\* consecutiveFailures is below the threshold after the resume tick, and true
\* otherwise.
C8_GetStoppedAfterSetAmended ==
    (lastOp = "get_stopped" /\ wdt_fd >= 0) =>
        /\ log = <<"after", "stop">> => ret.v = TRUE
        /\ log = <<"after", "resume">> =>
               (ret.v = FALSE <=> wdte_failures < WDTE_FAILURES_THRESHOLD)

C8_Witness ==
    /\ lastOp = "get_stopped"
    /\ wdt_fd >= 0
    /\ log = <<"after", "resume">>
    /\ ret.v = TRUE

\* C9: once open has failed, no public operation arms the timer, runs the
\* probe, changes either counter or sends a request to the device;
\* setTimeout and setFrequency return 0 and descriptorAsString returns absent.
PublicOps == {"ping", "stop", "resume", "timeout", "frequency", "fd", "no_cloexec"}

C9_DisabledIsNoOp ==
    [][(wdt_fd < 0 /\ cb /\ lastOp' \in PublicOps) =>
          /\ pending' => pending
          /\ probe' = NoProbe
          /\ wdte_cycle' = wdte_cycle
          /\ wdte_failures' = wdte_failures
          /\ DeviceRequests(log') = 0
          /\ lastOp' \in {"timeout", "frequency"} => ret' = IntRet(0)
          /\ lastOp' = "fd" => ret' = NullRet]_vars

\* C10: when an image with descriptor d execs with WDTFD exported, the init
\* of the new image ends with descriptor d, calls no open and leaves WDTFD
\* unset.
C10_HandoverRoundTrip ==
    [][(lastOp = "exec" /\ handed >= 0 /\ lastOp' = "init") =>
          /\ wdt_fd' = handed
          /\ ~Has(log', "open")
          /\ env' = NoEnv]_vars

\* C11: descriptorAsString() returns absent exactly on a disabled handle, and
\* on an enabled handle with descriptor d a string of decimal digits that is
\* the whole decimal rendering of d (it reads back as d).
C11_DescriptorString ==
    lastOp = "fd" =>
        /\ ret = NullRet <=> wdt_fd < 0
        /\ wdt_fd >= 0 => (ret.kind = "str" /\ Len(ret.v) >= 1 /\ Atoi(ret.v) = wdt_fd)

\* C12: a re-exec from a preinit image or after allowInheritance() finds the
\* device's descriptor inheritable and does not close it, the init of the new
\* image adopts that same open descriptor without an open call, and after an
\* init with preinit = false the device's descriptor carries close-on-exec
\* until allowInheritance() or the next exec.
C12_HandoverKeepsDescriptor ==
    [][/\ (lastOp' = "exec" /\ wdt_fd >= 0 /\ wdt_fd = kfd
             /\ mode \in {"preinit", "allowed"})
          => (~kcloexec /\ kfd' = kfd)
       /\ (lastOp' = "init" /\ mode = "handover" /\ wdt_fd < 0)
          => (wdt_fd' = kfd' /\ kfd' = kfd /\ kfd >= 0 /\ ~Has(log', "open"))
       /\ (lastOp' = "init" /\ wdt_fd < 0 /\ wdt_fd' >= 0 /\ arg' = 0 /\ kfd' >= 0)
          => kcloexec'
       /\ (mode = "main" /\ kcloexec /\ lastOp' \notin {"no_cloexec", "exec"})
          => kcloexec']_vars

(* ------------ the configuration requests, any integer argument -------- *)
ConfigTimeouts == {-1, 0, 10}
ConfigFrequencies == {-1, 0, 2}

NextConfig ==
    \/ watchdog_init({FALSE}, OpenResults, BOOLEAN, {TRUE}, 0, FALSE)
    \/ TimerFire({TRUE}, 0, FALSE)
    \/ watchdog_timeout(ConfigTimeouts, BOOLEAN)
    \/ watchdog_frequency(ConfigFrequencies)

SpecConfig == Init /\ [][NextConfig]_vars

\* C13: on an enabled handle setTimeout(seconds) sends a set-timeout request
\* only when seconds > 0, always queries the device and returns the driver's
\* current timeout; on a disabled handle it returns 0 and sends nothing.
C13_SetTimeout ==
    [][lastOp' = "timeout" =>
          IF wdt_fd < 0
          THEN ret' = IntRet(0) /\ DeviceRequests(log') = 0
          ELSE /\ Has(log', "set") => arg' > 0
               /\ Has(log', "get")
               /\ ret' = IntRet(drv')]_vars

\* C14: setFrequency(seconds) changes the ping interval only on an enabled
\* handle with seconds > 0 and then returns the new value; otherwise the
\* interval is unchanged and it returns the current one, or 0 on a disabled
\* handle; so the interval is positive in every state and so is every delay
\* the timer is armed with.
C14_SetFrequency ==
    [][/\ lastOp' = "frequency" =>
            /\ wdt_frequency' = (IF wdt_fd >= 0 /\ arg' > 0 THEN arg' ELSE wdt_frequency)
            /\ ret' = IntRet(IF wdt_fd < 0 THEN 0 ELSE wdt_frequency')
       /\ wdt_frequency' > 0
       /\ pending' => delay' > 0]_vars

(* ------------------- the scheduler with failing writes ----------------- *)
NextPing ==
    \/ watchdog_init({FALSE}, OpenResults, {TRUE}, BOOLEAN, 0, FALSE)
    \/ TimerFire(BOOLEAN, 0, FALSE)
    \/ watchdog_set_stopped(TRUE, BOOLEAN, 0, FALSE)
    \/ watchdog_set_stopped(FALSE, BOOLEAN, 0, FALSE)
    \/ Ping(BOOLEAN)

SpecPing == Init /\ [][NextPing]_vars

\* C15: a tick whose ping write fails keeps the descriptor, moves the two
\* counters as a tick always does, and arms the timer for
\* pingIntervalSeconds * 1000; the tick after it writes again.
C15_WriteFailureNonFatal ==
    [][/\ (Has(log', "tick") /\ Has(log', "write_err")) =>
            /\ wdt_fd' >= 0
            /\ lastOp' # "init" => wdt_fd' = wdt_fd
            /\ pending'
            /\ delay' = wdt_frequency' * 1000
            /\ wdte_cycle' = (wdte_cycle + 1) % WDTE_FREQUENCY
            /\ wdte_failures' = (IF probe' = NoProbe THEN wdte_failures
                                 ELSE IF IsSuccess(probe') THEN 0
                                 ELSE wdte_failures + 1)
       /\ (TickRan /\ Has(log, "write_err") /\ Has(log', "tick") /\ pending') =>
            Pings(log') = 1]_vars

C15_Witness ==
    /\ lastOp = "timer"
    /\ log = <<"tick", "probe", "write_err">>
    /\ wdt_fd >= 0
    /\ pending
    /\ wdte_failures = 1

\* C16: the cycle counter stays within 0 .. FREQUENCY - 1, a tick resets it to
\* 0 exactly when it runs the probe and otherwise adds one, and the 12th tick
\* after a successful init runs the probe and leaves the counter at 0, and
\* consecutiveFailures at 0 when that probe exits with 0.
C16_CycleCounter ==
    [][/\ 0 <= wdte_cycle' /\ wdte_cycle' < WDTE_FREQUENCY
       /\ Has(log', "tick") =>
            wdte_cycle' = (IF Has(log', "probe") THEN 0 ELSE wdte_cycle + 1)
       /\ (Has(log', "tick") /\ wdt_fd' >= 0 /\ ticks' = WDTE_FREQUENCY) =>
            /\ Has(log', "probe")
            /\ wdte_cycle' = 0
            /\ IsSuccess(probe') => wdte_failures' = 0]_vars

\* C17: only an operation that runs the timer callback changes the cycle
\* counter or consecutiveFailures; setStopped(true), ping, setTimeout,
\* setFrequency, descriptorAsString, allowInheritance, getStopped and an init
\* on an open handle run no tick, and setStopped(true) only cancels the timer.
C17_CountersOnlyByTick ==
    [][/\ ~Has(log', "tick") =>
            (wdte_cycle' = wdte_cycle /\ wdte_failures' = wdte_failures)
       /\ lastOp' \in {"stop", "ping", "timeout", "frequency", "fd", "no_cloexec",
                       "get_stopped"} => ~Has(log', "tick")
       /\ (lastOp' = "init" /\ wdt_fd >= 0) => ~Has(log', "tick")
       /\ lastOp' = "stop" => ~pending']_vars

C17_Witness ==
    /\ lastOp = "stop"
    /\ wdt_fd >= 0
    /\ wdte_cycle = 5
    /\ wdte_failures = 2

\* C18: an init that opens or adopts the descriptor sends one set-timeout
\* request, runs exactly one tick and returns with the timer pending and one
\* ping written; an init on an open handle does nothing: no tick, no device
\* request, WDTFD untouched.
C18_InitTicksOnce ==
    [][lastOp' = "init" =>
          IF wdt_fd >= 0
          THEN /\ log' = <<>>
               /\ env' = env
               /\ UNCHANGED <<wdt_fd, wdte_cycle, wdte_failures, pending, delay,
                              kfd, kcloexec, drv, wdt_frequency>>
          ELSE wdt_fd' >= 0 =>
               /\ Count(log', "set") = 1
               /\ Count(log', "tick") = 1
               /\ pending'
               /\ Pings(log') = 1]_vars

(* ------------- resume requests on a scheduler nobody stops ------------- *)
NextResume ==
    \/ watchdog_init({FALSE}, {3}, {TRUE}, {TRUE}, MaxTicks, FALSE)
    \/ TimerFire({TRUE}, MaxTicks, FALSE)
    \/ watchdog_set_stopped(FALSE, {TRUE}, MaxTicks, FALSE)
    \/ watchdog_frequency(FrequencyInputs)

SpecResume == Init /\ [][NextResume]_vars

LiveTick == TimerFire({TRUE}, 0, TRUE)

\* init until the handle is open, then nothing but the timer
NextLive ==
    \/ wdt_fd < 0 /\ watchdog_init(BOOLEAN, OpenResults, {TRUE}, {TRUE}, 0, TRUE)
    \/ wdt_fd >= 0 /\ LiveTick

\* uloop runs a timer that is pending
SpecLive == Init /\ [][NextLive]_vars /\ WF_vars(LiveTick)

OnlyGenericFailures == probe # NoProbe => IsGeneric(probe)
NoFifteenWithoutSuccess ==
    /\ probe # NoProbe => ~IsRestart(probe)
    /\ run < WDTE_FAILURES_THRESHOLD

\* C20: after a successful init, with the pending timer always fired in the
\* end and no stop request: (a) when every probe is a generic failure the
\* scheduler is eventually Stopped for good; (b) when no probe returns 64 and
\* no 15 probes in a row are without an exit code 0, the scheduler is Armed
\* for ever and ticks that write a ping happen infinitely often.
C20_Liveness ==
    /\ []OnlyGenericFailures => [](wdt_fd >= 0 => <>[](~pending))
    /\ []NoFifteenWithoutSuccess =>
          /\ [](wdt_fd >= 0 => pending)
          /\ <>(wdt_fd >= 0) => []<><<LiveTick /\ Has(log', "write")>>_vars

\* the 15th generic failure in a row has stopped the scheduler
C20_Witness ==
    /\ wdt_fd >= 0
    /\ lastOp = "timer"
    /\ run = WDTE_FAILURES_THRESHOLD
    /\ IsGeneric(probe)
    /\ probe # NoProbe
    /\ ~pending
    /\ Has(log, "probe")
    /\ Pings(log) = 0

====
